---------------------------- MODULE Spec2Model ----------------------------
(***************************************************************************)
(* A model of scripts/fake_data_detector.py: the FakeDataDetector syntax   *)
(* tree visitor, its text pattern scanner, scan_file / scan_directory,    *)
(* the DetectionResult properties and the exit code of main().             *)
(*                                                                         *)
(* Python strings are TLA+ strings (sequences of characters: Len, SubSeq   *)
(* and \o apply to them).  The Python object None is the string "None",    *)
(* which is a keyword and so never the name of a function or a class.      *)
(* Hangul text of the source is written in ASCII: the marker of the        *)
(* fake-success pattern as its code points, messages as English glosses.   *)
(***************************************************************************)
EXTENDS Integers, Sequences, FiniteSets, TLC

VARIABLES
    self,       \* the FakeDataDetector in use (its fields), or None
    pc,         \* where the program is
    stack,      \* visit_FunctionDef / visit_ClassDef calls waiting in generic_visit
    fuel,       \* nodes of the tree not yet visited
    last,       \* the node the walk visited last, NoNode before the first
    args,       \* the parsed command line of main()
    result,     \* main()'s DetectionResult
    todo,       \* how many of args.paths main() has still to process
    summary,    \* the derived values main() reports, or None
    exit_code   \* the argument of sys.exit, or None

vars == <<self, pc, stack, fuel, last, args, result, todo, summary, exit_code>>

None == "None"

\* no node of a tree
NoNode == [type |-> None]

(***************************************************************************)
(* Bounds of the model.                                                    *)
(***************************************************************************)
MaxNodes == 3       \* nodes of a syntax tree visited in one detect()
MaxPaths == 2       \* paths on the command line of main()
MaxDirFiles == 1    \* files one directory holds
MaxIssues == 3      \* issues of a DetectionResult given to the scorer
MaxScanned == 3     \* files_scanned of a DetectionResult given to the scorer

(***************************************************************************)
(* Strings.                                                                *)
(***************************************************************************)
Min(a, b) == IF a < b THEN a ELSE b
Max(a, b) == IF a > b THEN a ELSE b

\* s[i] of a Python string, 1-based; "" beyond the end
At(s, i) == IF 1 <= i /\ i <= Len(s) THEN SubSeq(s, i, i) ELSE ""

\* s[i:] of a Python string, 1-based
From(s, i) == IF i > Len(s) THEN "" ELSE SubSeq(s, i, Len(s))

\* s.startswith(sub, i-1)
StartsAt(s, sub, i) ==
    /\ i >= 1
    /\ i + Len(sub) - 1 <= Len(s)
    /\ SubSeq(s, i, i + Len(sub) - 1) = sub

\* Python's  sub in s
In(sub, s) == \E i \in 1..(Len(s) + 1) : StartsAt(s, sub, i)

\* s.find(sub) + 1: the first place sub occurs in s, 0 when it does not
Find(s, sub) ==
    IF In(sub, s)
    THEN CHOOSE i \in 1..(Len(s) + 1) :
            /\ StartsAt(s, sub, i)
            /\ \A j \in 1..(i - 1) : ~StartsAt(s, sub, j)
    ELSE 0

UpperCase == "ABCDEFGHIJKLMNOPQRSTUVWXYZ"
LowerCase == "abcdefghijklmnopqrstuvwxyz"
UpperChars == {At(UpperCase, i) : i \in 1..Len(UpperCase)}
LowerOf == [c \in UpperChars |-> At(LowerCase, Find(UpperCase, c))]

LowerChar(c) == IF c \in UpperChars THEN LowerOf[c] ELSE c

RECURSIVE Lower(_)
\* str.lower()
Lower(s) == IF s = "" THEN "" ELSE LowerChar(At(s, 1)) \o Lower(From(s, 2))

RECURSIVE Split(_, _)
\* str.split(sep): the pieces between the occurrences of sep, at least one
Split(s, sep) ==
    LET i == Find(s, sep)
    IN  IF i = 0 THEN <<s>>
        ELSE <<SubSeq(s, 1, i - 1)>> \o Split(From(s, i + Len(sep)), sep)

RECURSIVE Join(_, _)
\* sep.join(parts)
Join(parts, sep) ==
    IF Len(parts) = 0 THEN ""
    ELSE IF Len(parts) = 1 THEN parts[1]
    ELSE parts[1] \o sep \o Join(Tail(parts), sep)

RECURSIVE Reversed(_)
Reversed(seq) ==
    IF Len(seq) = 0 THEN <<>> ELSE Append(Reversed(Tail(seq)), Head(seq))

\* the character classes \s and \d of the re module, over ASCII
IsSpace(c) == c \in {" ", "\t", "\n", "\r", "\f"}
IsDigit(c) == Len(c) = 1 /\ In(c, "0123456789")

RECURSIVE SkipSpace(_, _)
\* where \s* ends when it starts at i
SkipSpace(s, i) == IF IsSpace(At(s, i)) THEN SkipSpace(s, i + 1) ELSE i

RECURSIVE SkipDigits(_, _)
\* where \d* ends when it starts at i
SkipDigits(s, i) == IF IsDigit(At(s, i)) THEN SkipDigits(s, i + 1) ELSE i

(***************************************************************************)
(* Issue and DetectionResult.                                              *)
(***************************************************************************)
Issue(severity, file, line, message, pattern, suggestion) ==
    [severity |-> severity, file |-> file, line |-> line,
     message |-> message, pattern |-> pattern, suggestion |-> suggestion]

DetectionResult(issues, files_scanned) ==
    [issues |-> issues, files_scanned |-> files_scanned]

RECURSIVE CountSeverity(_, _)
\* sum(1 for i in issues if i.severity == severity)
CountSeverity(issues, severity) ==
    IF Len(issues) = 0 THEN 0
    ELSE (IF Head(issues).severity = severity THEN 1 ELSE 0)
         + CountSeverity(Tail(issues), severity)

critical_count(r) == CountSeverity(r.issues, "CRITICAL")

warning_count(r) == CountSeverity(r.issues, "WARNING")

\* weights.get(severity, 1)
\* a variant of the weights in which a severity the table lacks weighs nothing
Weight_known(severity) ==
    CASE severity = "CRITICAL" -> 10
      [] severity = "WARNING" -> 3
      [] severity = "INFO" -> 1
      [] OTHER -> 0

Weight(severity) ==
    CASE severity = "CRITICAL" -> 10
      [] severity = "WARNING" -> 3
      [] severity = "INFO" -> 1
      [] OTHER -> 1

RECURSIVE WeightTotal(_)
\* sum(weights.get(i.severity, 1) for i in issues)
WeightTotal(issues) ==
    IF Len(issues) = 0 THEN 0
    ELSE Weight(Head(issues).severity) + WeightTotal(Tail(issues))

RECURSIVE Gcd(_, _)
Gcd(a, b) == IF b = 0 THEN a ELSE Gcd(b, a % b)

\* the quotient n / d of true division, as the fraction in lowest terms
Quotient(n, d) == <<n \div Gcd(n, d), d \div Gcd(n, d)>>

bs_score(r) == Quotient(WeightTotal(r.issues), Max(r.files_scanned, 1))

passed(r) == critical_count(r) = 0

(***************************************************************************)
(* The tables of FakeDataDetector.                                         *)
(***************************************************************************)
\* the dict FAKE_DATA_PATTERNS, in insertion order
FAKE_DATA_PATTERNS == <<
    [pattern |-> "np.random.rand", severity |-> "CRITICAL"],
    [pattern |-> "np.random.randn", severity |-> "CRITICAL"],
    [pattern |-> "np.random.random", severity |-> "CRITICAL"],
    [pattern |-> "np.random.uniform", severity |-> "CRITICAL"],
    [pattern |-> "np.random.normal", severity |-> "CRITICAL"],
    [pattern |-> "np.random.choice", severity |-> "WARNING"],
    [pattern |-> "random.random", severity |-> "CRITICAL"],
    [pattern |-> "random.uniform", severity |-> "CRITICAL"],
    [pattern |-> "faker.Faker", severity |-> "WARNING"] >>

ALLOWED_CONTEXTS == <<"test_", "mock_", "seed", "random_state", "shuffle", "sample">>

\* os.environ.get("FAKE_DATA_FEATURE_PATTERNS", default).split(","), the
\* variable not being set
FEATURE_PATTERNS == Split("feature,program,arbitrage", ",")

(***************************************************************************)
(* Syntax tree nodes, as far as the visitor reads them.  children are the  *)
(* nearest descendants of a kind the visitor has a method for, in the      *)
(* order generic_visit meets them.                                         *)
(***************************************************************************)
Name(id) == [type |-> "Name", id |-> id]
Attribute(value, attr) == [type |-> "Attribute", value |-> value, attr |-> attr]
Subscript == [type |-> "Subscript"]
Pass == [type |-> "Pass"]
Expr == [type |-> "Expr"]
Raise == [type |-> "Raise"]
FunctionDef(name, lineno, children) ==
    [type |-> "FunctionDef", name |-> name, lineno |-> lineno, children |-> children]
AsyncFunctionDef(name, lineno, children) ==
    [type |-> "AsyncFunctionDef", name |-> name, lineno |-> lineno, children |-> children]
ClassDef(name, lineno, children) ==
    [type |-> "ClassDef", name |-> name, lineno |-> lineno, children |-> children]
Call(func, lineno, children) ==
    [type |-> "Call", func |-> func, lineno |-> lineno, children |-> children]
Assign(targets, lineno, children) ==
    [type |-> "Assign", targets |-> targets, lineno |-> lineno, children |-> children]
ExceptHandler(body, lineno, children) ==
    [type |-> "ExceptHandler", body |-> body, lineno |-> lineno, children |-> children]
Module(children) == [type |-> "Module", children |-> children]

(***************************************************************************)
(* The sources the model scans, each with the tree ast.parse gives for it. *)
(***************************************************************************)
SampleSource ==
    "class Sample:\n"
    \o "    async def run(self):\n"
    \o "        np.random.randn(3)\n"
    \o "        np.random.random()\n"
    \o "        np.random.uniform(0, 1)\n"
    \o "        np.random.normal()\n"
    \o "        np.random.choice(xs)\n"
    \o "class Model:\n"
    \o "    def test_foo(self):\n"
    \o "        random.random()\n"
    \o "        random.uniform(0, 1)\n"
    \o "        faker.Faker()\n"
    \o "        xs[0].random.uniform(0, 1)\n"
    \o "def run():\n"
    \o "    pass  # TODO: fix\n"
    \o "    try:\n"
    \o "        feature_x = 0.6 * np.random.rand()\n"
    \o "        Feature_y = np.random.PI\n"
    \o "        feature_z = 0.6 * base\n"
    \o "        x = 0.6 * base\n"
    \o "        obj.feature_w = 0.6 * base\n"
    \o "    except ValueError:\n"
    \o "        pass\n"
    \o "    except KeyError:\n"
    \o "        print(\"Task done\")\n"
    \o "    except OSError:\n"
    \o "        pass\n"
    \o "        raise\n"

SampleTree ==
    Module(<<
      ClassDef("Sample", 1, <<
        AsyncFunctionDef("run", 2, <<
          Call(Attribute(Attribute(Name("np"), "random"), "randn"), 3, <<>>),
          Call(Attribute(Attribute(Name("np"), "random"), "random"), 4, <<>>),
          Call(Attribute(Attribute(Name("np"), "random"), "uniform"), 5, <<>>),
          Call(Attribute(Attribute(Name("np"), "random"), "normal"), 6, <<>>),
          Call(Attribute(Attribute(Name("np"), "random"), "choice"), 7, <<>>) >>) >>),
      ClassDef("Model", 8, <<
        FunctionDef("test_foo", 9, <<
          Call(Attribute(Name("random"), "random"), 10, <<>>),
          Call(Attribute(Name("random"), "uniform"), 11, <<>>),
          Call(Attribute(Name("faker"), "Faker"), 12, <<>>),
          Call(Attribute(Attribute(Subscript, "random"), "uniform"), 13, <<>>) >>) >>),
      FunctionDef("run", 14, <<
        Assign(<<Name("feature_x")>>, 17, <<
          Call(Attribute(Attribute(Name("np"), "random"), "rand"), 17, <<>>) >>),
        Assign(<<Name("Feature_y")>>, 18, <<>>),
        Assign(<<Name("feature_z")>>, 19, <<>>),
        Assign(<<Name("x")>>, 20, <<>>),
        Assign(<<Attribute(Name("obj"), "feature_w")>>, 21, <<>>),
        ExceptHandler(<<Pass>>, 22, <<>>),
        ExceptHandler(<<Expr>>, 24, <<
          Call(Name("print"), 25, <<>>) >>),
        ExceptHandler(<<Pass, Raise>>, 26, <<>>) >>) >>)

CleanSource ==
    "x = 1\n"

CleanTree ==
    Module(<<
      Assign(<<Name("x")>>, 1, <<>>) >>)

CritSource ==
    "random.random()\n"

CritTree ==
    Module(<<
      Call(Attribute(Name("random"), "random"), 1, <<>>) >>)

BrokenSource ==
    "def broken(:\n"
    \o "    print(\"Success!\")\n"
    \o "    pass  # TODO\n"

AllSources == {SampleSource, CleanSource, CritSource, BrokenSource}

\* every line of every source
SourceLines ==
    UNION {{Split(src, "\n")[k] : k \in 1..Len(Split(src, "\n"))} : src \in AllSources}

(***************************************************************************)
(* FakeDataDetector.                                                       *)
(***************************************************************************)
\* FakeDataDetector.__init__
FakeDataDetector(source, filename) ==
    [source |-> source, filename |-> filename, lines |-> Split(source, "\n"),
     issues |-> <<>>, current_function |-> None, current_class |-> None]

\* x or ''
OrEmpty(x) == IF x = None THEN "" ELSE x

\* a variant of the context test that looks at the class only
_is_allowed_context_class(s) ==
    \E k \in 1..Len(ALLOWED_CONTEXTS) :
        In(ALLOWED_CONTEXTS[k], Lower(OrEmpty(s.current_class) \o "."))

_is_allowed_context(s) ==
    LET context == OrEmpty(s.current_class) \o "." \o OrEmpty(s.current_function)
    IN  \E k \in 1..Len(ALLOWED_CONTEXTS) : In(ALLOWED_CONTEXTS[k], Lower(context))

RECURSIVE CallNameParts(_, _)
\* the while loop of _get_call_name
CallNameParts(current, parts) ==
    IF current.type = "Attribute"
    THEN CallNameParts(current.value, Append(parts, current.attr))
    ELSE IF current.type = "Name" THEN Append(parts, current.id)
    ELSE parts

_get_call_name(node) == Join(Reversed(CallNameParts(node.func, <<>>)), ".")

_get_source_line(s, lineno) ==
    IF 0 < lineno /\ lineno <= Len(s.lines) THEN s.lines[lineno] ELSE ""

\* self.issues.append(issue), for each issue of the list in turn
AddIssues(s, issues) == [s EXCEPT !.issues = @ \o issues]

\* whether the rule of FAKE_DATA_PATTERNS[k] fires on call_name
\* a variant of the rule test that wants the name to be the key
RuleMatches_exact(k, call_name) == FAKE_DATA_PATTERNS[k].pattern = call_name

RuleMatches(k, call_name) == In(FAKE_DATA_PATTERNS[k].pattern, call_name)

RECURSIVE CallRules(_, _, _)
\* the for loop of visit_Call, from rule k on: the issues it appends
CallRules(s, node, k) ==
    IF k > Len(FAKE_DATA_PATTERNS) THEN <<>>
    ELSE LET call_name == _get_call_name(node)
             rule == FAKE_DATA_PATTERNS[k]
         IN  (IF RuleMatches(k, call_name) /\ ~_is_allowed_context(s)
              THEN <<Issue(rule.severity, s.filename, node.lineno,
                           "fake data pattern: " \o call_name,
                           rule.pattern,
                           "use real API data or a verified data source")>>
              ELSE <<>>)
             \o CallRules(s, node, k + 1)

\* visit_Call up to its generic_visit
Call_check(s, node) == AddIssues(s, CallRules(s, node, 1))

\* re.search(r"=\s*\d+\.\d+\s*\*", line) finds a match
MagicNumberAt(line, i) ==
    LET d1 == SkipSpace(line, i + 1)
        p == SkipDigits(line, d1)
        d2 == p + 1
        e == SkipDigits(line, d2)
    IN  /\ At(line, i) = "="
        /\ p > d1
        /\ At(line, p) = "."
        /\ e > d2
        /\ At(line, SkipSpace(line, e)) = "*"

MagicNumber(line) == \E i \in 1..Len(line) : MagicNumberAt(line, i)

\* any(kw in var_name.lower() for kw in self.FEATURE_PATTERNS)
IsFeatureName(var_name) ==
    \E k \in 1..Len(FEATURE_PATTERNS) : In(FEATURE_PATTERNS[k], Lower(var_name))

\* "np.random" in line or "random." in line
RandomSource(line) == In("np.random", line) \/ In("random.", line)

\* the Issue of a feature that is assigned random data
FeatureRandomIssue(s, node, target) ==
    Issue("CRITICAL", s.filename, node.lineno,
          "random data assigned to feature '" \o target.id \o "'",
          "feature_random_assignment",
          "use real API data or remove the feature")

\* the Issue of a feature that is assigned a magic number
MagicNumberIssue(s, node, target) ==
    Issue("WARNING", s.filename, node.lineno,
          "magic number used in feature '" \o target.id \o "'",
          "magic_number",
          "define a constant or load it from a settings file")

\* a variant of the loop body that looks for the magic number whatever the
\* name of the target
AssignTarget_anyname(s, node, target) ==
    LET line == _get_source_line(s, node.lineno)
    IN  IF target.type # "Name" THEN <<>>
        ELSE (IF IsFeatureName(target.id) /\ RandomSource(line)
              THEN <<FeatureRandomIssue(s, node, target)>> ELSE <<>>)
             \o
             (IF MagicNumber(line) THEN <<MagicNumberIssue(s, node, target)>> ELSE <<>>)

\* a variant of the loop body that an allowed context silences
AssignTarget_allowed(s, node, target) ==
    LET line == _get_source_line(s, node.lineno)
    IN  IF target.type # "Name" \/ _is_allowed_context(s) THEN <<>>
        ELSE IF ~IsFeatureName(target.id) THEN <<>>
        ELSE (IF RandomSource(line)
              THEN <<FeatureRandomIssue(s, node, target)>> ELSE <<>>)
             \o
             (IF MagicNumber(line) THEN <<MagicNumberIssue(s, node, target)>> ELSE <<>>)

\* the body of visit_Assign's loop for one target: the issues it appends
AssignTarget(s, node, target) ==
    LET line == _get_source_line(s, node.lineno)
    IN  IF target.type # "Name" THEN <<>>
        ELSE IF ~IsFeatureName(target.id) THEN <<>>
        ELSE (IF RandomSource(line)
              THEN <<FeatureRandomIssue(s, node, target)>> ELSE <<>>)
             \o
             (IF MagicNumber(line) THEN <<MagicNumberIssue(s, node, target)>> ELSE <<>>)

RECURSIVE AssignTargets(_, _, _)
\* the for loop of visit_Assign, from target k on: the issues it appends
AssignTargets(s, node, k) ==
    IF k > Len(node.targets) THEN <<>>
    ELSE AssignTarget(s, node, node.targets[k]) \o AssignTargets(s, node, k + 1)

\* visit_Assign up to its generic_visit
Assign_check(s, node) == AddIssues(s, AssignTargets(s, node, 1))

\* a variant of the test that one pass statement in the body satisfies
HidesException_any(node) ==
    Len(node.body) = 0 \/ \E k \in 1..Len(node.body) : node.body[k].type = "Pass"

\* not node.body or all(isinstance(n, ast.Pass) for n in node.body)
HidesException(node) ==
    Len(node.body) = 0 \/ \A k \in 1..Len(node.body) : node.body[k].type = "Pass"

\* visit_ExceptHandler up to its generic_visit
ExceptHandler_check(s, node) ==
    IF HidesException(node)
    THEN AddIssues(s, <<Issue("CRITICAL", s.filename, node.lineno,
                              "exception hidden (except: pass)",
                              "exception_hiding",
                              "handle the error or log it")>>)
    ELSE s

\* the first statement of visit_FunctionDef and of visit_AsyncFunctionDef
FunctionDef_enter(s, node) == [s EXCEPT !.current_function = node.name]

\* a variant of the exit that leaves current_function as it is
FunctionDef_exit_keep(s) == s

\* the last statement of visit_FunctionDef and of visit_AsyncFunctionDef
FunctionDef_exit(s) == [s EXCEPT !.current_function = None]

\* the first statement of visit_ClassDef
ClassDef_enter(s, node) == [s EXCEPT !.current_class = node.name]

\* the last statement of visit_ClassDef
ClassDef_exit(s) == [s EXCEPT !.current_class = None]

\* what the visit_ method of the node's kind does before generic_visit
Enter(s, node) ==
    CASE node.type \in {"FunctionDef", "AsyncFunctionDef"} -> FunctionDef_enter(s, node)
      [] node.type = "ClassDef" -> ClassDef_enter(s, node)
      [] node.type = "Call" -> Call_check(s, node)
      [] node.type = "Assign" -> Assign_check(s, node)
      [] node.type = "ExceptHandler" -> ExceptHandler_check(s, node)
      [] OTHER -> s

\* what the visit_ method of the node's kind does after generic_visit
Leave(s, node) ==
    CASE node.type \in {"FunctionDef", "AsyncFunctionDef"} -> FunctionDef_exit(s)
      [] node.type = "ClassDef" -> ClassDef_exit(s)
      [] OTHER -> s

RECURSIVE visit(_, _), VisitAll(_, _)
\* NodeVisitor.visit: the visit_ method of the node's kind, generic_visit
\* for the kinds that have none
visit(s, node) == Leave(VisitAll(Enter(s, node), node.children), node)

\* NodeVisitor.generic_visit: visit every child in order
VisitAll(s, nodes) ==
    IF Len(nodes) = 0 THEN s ELSE VisitAll(visit(s, Head(nodes)), Tail(nodes))

\* re.search(r'print\s*\(\s*["\'].*(?:...|success|done)', line, re.IGNORECASE)
\* finds a match; the first alternative is the Hangul word U+C644 U+B8CC
SuccessMarkers == <<"{U+C644}{U+B8CC}", "success", "done">>

\* the pattern matches the lower-cased line low from place i on
FakeSuccessAt(low, i) ==
    LET paren == SkipSpace(low, i + 5)
        quote == SkipSpace(low, paren + 1)
    IN  /\ StartsAt(low, "print", i)
        /\ At(low, paren) = "("
        /\ At(low, quote) \in {"\"", "'"}
        /\ \E k \in 1..Len(SuccessMarkers) :
              In(Lower(SuccessMarkers[k]), From(low, quote + 1))

FakeSuccess(line) ==
    LET low == Lower(line) IN \E i \in 1..Len(low) : FakeSuccessAt(low, i)

\* "TODO" in line and "pass" in line.split("#")[0]
TodoPass(line) == In("TODO", line) /\ In("pass", Split(line, "#")[1])

\* what the two tests of _detect_text_patterns' loop give on a line, worked
\* out once for each line
TextMatches ==
    [line \in SourceLines |->
        [fake_success |-> FakeSuccess(line), todo_pass |-> TodoPass(line)]]

\* the body of _detect_text_patterns' loop for line i: the issues it appends
TextLine(lines, filename, i) ==
    (IF TextMatches[lines[i]].fake_success
     THEN <<Issue("WARNING", filename, i,
                  "unfounded completion message",
                  "fake_success",
                  "report the result of a real check")>>
     ELSE <<>>)
    \o
    (IF TextMatches[lines[i]].todo_pass
     THEN <<Issue("WARNING", filename, i,
                  "TODO + pass: unfinished code",
                  "todo_pass",
                  "implement it or raise NotImplementedError")>>
     ELSE <<>>)

RECURSIVE TextLines(_, _, _)
\* the for loop of _detect_text_patterns, from line i on: the issues it appends
TextLines(lines, filename, i) ==
    IF i > Len(lines) THEN <<>>
    ELSE TextLine(lines, filename, i) \o TextLines(lines, filename, i + 1)

_detect_text_patterns(s) == AddIssues(s, TextLines(s.lines, s.filename, 1))

(***************************************************************************)
(* detect().                                                               *)
(***************************************************************************)
\* ast.parse(source): the tree, or the SyntaxError it raises
ast_parse(source) ==
    CASE source = SampleSource -> [raised |-> FALSE, value |-> SampleTree]
      [] source = CleanSource -> [raised |-> FALSE, value |-> CleanTree]
      [] source = CritSource -> [raised |-> FALSE, value |-> CritTree]
      [] source = BrokenSource -> [raised |-> TRUE, value |-> "SyntaxError"]

\* detect(), on the detector s: the detector as detect() leaves it, whose
\* issues are the list detect() returns
detect(s) ==
    LET tree == ast_parse(s.source)
    IN  _detect_text_patterns(IF tree.raised THEN s ELSE visit(s, tree.value))

(***************************************************************************)
(* scan_file and scan_directory.  A call either returns a value or raises. *)
(***************************************************************************)
Returns(value) == [raised |-> FALSE, value |-> value]
Raises(error) == [raised |-> TRUE, value |-> error]

\* files of the file system: a path with the text of the file, None for a
\* file that cannot be read
File(path, content) == [path |-> path, content |-> content]

\* filepath.read_text(encoding="utf-8")
read_text(f) ==
    IF f.content = None THEN Raises("[Errno 13] Permission denied: '" \o f.path \o "'")
    ELSE Returns(f.content)

\* the try block of scan_file
scan_file_try(f) ==
    LET source == read_text(f)
    IN  IF source.raised THEN source
        ELSE Returns(detect(FakeDataDetector(source.value, f.path)).issues)

\* a variant of scan_file without its except clause
scan_file_raising(f) == scan_file_try(f)

scan_file(f) ==
    LET r == scan_file_try(f)
    IN  IF r.raised
        THEN Returns(<<Issue("WARNING", f.path, 0,
                            "file read error: " \o r.value, "read_error", None)>>)
        ELSE r

\* the exclude patterns of scan_directory called as main() calls it, the
\* environment variable FAKE_DATA_EXCLUDE_PATHS not being set
exclude_patterns ==
    <<"__pycache__", ".git", "trash", "archive", ".venv", "venv", "node_modules">>

\* any(excl in str(py_file) for excl in exclude_patterns)
Excluded(f) == \E k \in 1..Len(exclude_patterns) : In(exclude_patterns[k], f.path)

RECURSIVE scan_directory_loop(_, _, _)
\* the for loop of scan_directory over what rglob yields, from entry k on
scan_directory_loop(listing, k, r) ==
    IF k > Len(listing) THEN Returns(r)
    ELSE IF Excluded(listing[k]) THEN scan_directory_loop(listing, k + 1, r)
    ELSE LET issues == scan_file(listing[k])
         IN  IF issues.raised THEN issues
             ELSE scan_directory_loop(listing, k + 1,
                    DetectionResult(r.issues \o issues.value, r.files_scanned + 1))

\* scan_directory(dirpath), listing being what dirpath.rglob("*.py") yields
scan_directory(listing) == scan_directory_loop(listing, 1, DetectionResult(<<>>, 0))

(***************************************************************************)
(* What the model feeds the program.                                       *)
(***************************************************************************)
Sources == {SampleSource, CleanSource, BrokenSource}

RECURSIVE NodesOf(_)
\* the nodes of a tree, each without its children
NodesOf(n) ==
    {[n EXCEPT !.children = <<>>]}
        \cup UNION {NodesOf(n.children[k]) : k \in 1..Len(n.children)}

\* the nodes a walk over the tree of a source may meet
TreeNodes ==
    [src \in Sources |->
        IF ast_parse(src).raised THEN {}
        ELSE {n \in NodesOf(ast_parse(src).value) : n.type # "Module"}]

InputFiles == {
    File("locked.py", None),
    File("broken.py", BrokenSource),
    File("clean.py", CleanSource),
    File("crit.py", CritSource) }

DirEntries == {
    File("pkg/locked.py", None),
    File("pkg/crit.py", CritSource),
    File("pkg/venv/crit.py", CritSource) }

SeqsUpTo(S, n) == UNION {[1..k -> S] : k \in 0..n}

Listings == SeqsUpTo(DirEntries, MaxDirFiles)

Severities == {"CRITICAL", "WARNING", "INFO", "DEBUG"}

AnyIssue(severity) == Issue(severity, "a.py", 1, "message", "pattern", None)

(***************************************************************************)
(* detect(), a node of the tree at a time.  The walk meets the nodes of    *)
(* the tree in any order and nesting; the children of a call, of an        *)
(* assignment and of a handler, whose visit_ methods end with              *)
(* generic_visit, are the nodes of the steps that follow.                  *)
(***************************************************************************)
Top == stack[Len(stack)]
Pop == SubSeq(stack, 1, Len(stack) - 1)

main_idle == UNCHANGED <<args, result, todo, summary, exit_code>>

Init ==
    /\ \E src \in Sources : self = FakeDataDetector(src, "a.py")
    /\ pc = "detect"
    /\ stack = <<>>
    /\ fuel = MaxNodes
    /\ last = NoNode
    /\ args = [strict |-> FALSE]
    /\ result = DetectionResult(<<>>, 0)
    /\ todo = 0
    /\ summary = None
    /\ exit_code = None

\* a variant of the except clause that returns without the text patterns
detect_SyntaxError_return ==
    /\ pc = "detect"
    /\ ast_parse(self.source).raised
    /\ pc' = "returned"
    /\ UNCHANGED <<self, stack, fuel, last>>
    /\ main_idle

\* ast.parse raises SyntaxError: the except clause, the text patterns, return
detect_SyntaxError ==
    /\ pc = "detect"
    /\ ast_parse(self.source).raised
    /\ self' = _detect_text_patterns(self)
    /\ pc' = "returned"
    /\ UNCHANGED <<stack, fuel, last>>
    /\ main_idle

\* ast.parse returns the tree and self.visit(tree) starts
detect_visit ==
    /\ pc = "detect"
    /\ ~ast_parse(self.source).raised
    /\ pc' = "visit"
    /\ UNCHANGED <<self, stack, fuel, last>>
    /\ main_idle

\* the visit_ method of a definition, up to the generic_visit it waits in
VisitDef(node, entered) ==
    /\ pc = "visit"
    /\ fuel > 0
    /\ self' = entered
    /\ stack' = Append(stack, node)
    /\ fuel' = fuel - 1
    /\ last' = node
    /\ UNCHANGED pc
    /\ main_idle

\* generic_visit returns to the visit_ method of a definition, which ends
ReturnDef(type, left) ==
    /\ pc = "visit"
    /\ Len(stack) > 0
    /\ Top.type = type
    /\ self' = left
    /\ stack' = Pop
    /\ UNCHANGED <<pc, fuel, last>>
    /\ main_idle

\* the visit_ method of a node whose children the following steps visit
VisitNode(node, checked) ==
    /\ pc = "visit"
    /\ fuel > 0
    /\ self' = checked
    /\ fuel' = fuel - 1
    /\ last' = node
    /\ UNCHANGED <<pc, stack>>
    /\ main_idle

visit_FunctionDef(node) ==
    node.type = "FunctionDef" /\ VisitDef(node, FunctionDef_enter(self, node))

return_FunctionDef == ReturnDef("FunctionDef", FunctionDef_exit(self))

visit_AsyncFunctionDef(node) ==
    node.type = "AsyncFunctionDef" /\ VisitDef(node, FunctionDef_enter(self, node))

return_AsyncFunctionDef == ReturnDef("AsyncFunctionDef", FunctionDef_exit(self))

visit_ClassDef(node) ==
    node.type = "ClassDef" /\ VisitDef(node, ClassDef_enter(self, node))

return_ClassDef == ReturnDef("ClassDef", ClassDef_exit(self))

visit_Call(node) == node.type = "Call" /\ VisitNode(node, Call_check(self, node))

visit_Assign(node) == node.type = "Assign" /\ VisitNode(node, Assign_check(self, node))

visit_ExceptHandler(node) ==
    node.type = "ExceptHandler" /\ VisitNode(node, ExceptHandler_check(self, node))

\* self.visit(tree) returns: the text patterns, return self.issues
detect_return ==
    /\ pc = "visit"
    /\ stack = <<>>
    /\ self' = _detect_text_patterns(self)
    /\ pc' = "returned"
    /\ UNCHANGED <<stack, fuel, last>>
    /\ main_idle

Next ==
    \/ detect_SyntaxError
    \/ detect_visit
    \/ \E node \in TreeNodes[self.source] : visit_FunctionDef(node)
    \/ return_FunctionDef
    \/ \E node \in TreeNodes[self.source] : visit_AsyncFunctionDef(node)
    \/ return_AsyncFunctionDef
    \/ \E node \in TreeNodes[self.source] : visit_ClassDef(node)
    \/ return_ClassDef
    \/ \E node \in TreeNodes[self.source] : visit_Call(node)
    \/ \E node \in TreeNodes[self.source] : visit_Assign(node)
    \/ \E node \in TreeNodes[self.source] : visit_ExceptHandler(node)
    \/ detect_return

Spec == Init /\ [][Next]_vars

(***************************************************************************)
(* main(): the paths of the command line in turn, then the exit code.      *)
(***************************************************************************)
detect_idle == UNCHANGED <<self, stack, fuel, last>>

InitMain ==
    /\ self = None
    /\ pc = "main"
    /\ stack = <<>>
    /\ fuel = 0
    /\ last = NoNode
    /\ args \in [strict : BOOLEAN]
    /\ result = DetectionResult(<<>>, 0)
    /\ todo \in 0..MaxPaths
    /\ summary = None
    /\ exit_code = None

\* an exception main() does not catch ends the process
Crash == pc' = "crashed" /\ UNCHANGED <<args, result, todo, summary, exit_code>>

\* the next path is the file f
main_file(f) ==
    /\ pc = "main"
    /\ todo > 0
    /\ LET issues == scan_file(f)
       IN  IF issues.raised THEN Crash
           ELSE /\ result' = DetectionResult(result.issues \o issues.value,
                                             result.files_scanned + 1)
                /\ todo' = todo - 1
                /\ UNCHANGED <<pc, args, summary, exit_code>>
    /\ detect_idle

\* the next path is a directory, whose rglob("*.py") yields listing
main_dir(listing) ==
    /\ pc = "main"
    /\ todo > 0
    /\ LET dir_result == scan_directory(listing)
       IN  IF dir_result.raised THEN Crash
           ELSE /\ result' = DetectionResult(
                                result.issues \o dir_result.value.issues,
                                result.files_scanned + dir_result.value.files_scanned)
                /\ todo' = todo - 1
                /\ UNCHANGED <<pc, args, summary, exit_code>>
    /\ detect_idle

\* the next path is neither a file nor a directory
main_skip ==
    /\ pc = "main"
    /\ todo > 0
    /\ todo' = todo - 1
    /\ UNCHANGED <<pc, args, result, summary, exit_code>>
    /\ detect_idle

\* the values the report, the JSON output and the exit code are made of
Summary(r) ==
    [files_scanned |-> r.files_scanned, critical_count |-> critical_count(r),
     warning_count |-> warning_count(r), bs_score |-> bs_score(r),
     passed |-> passed(r)]

\* a variant of the exit code that strict mode does not change
ExitCode_lenient(r, strict) == IF ~passed(r) THEN 1 ELSE 0

\* the exit code of main()
ExitCode(r, strict) ==
    IF ~passed(r) THEN 1
    ELSE IF strict /\ warning_count(r) > 0 THEN 1
    ELSE 0

\* the paths are done: the output, then sys.exit
main_exit ==
    /\ pc = "main"
    /\ todo = 0
    /\ summary' = Summary(result)
    /\ exit_code' = ExitCode(result, args.strict)
    /\ pc' = "exited"
    /\ UNCHANGED <<args, result, todo>>
    /\ detect_idle

NextMain ==
    \/ \E f \in InputFiles : main_file(f)
    \/ \E listing \in Listings : main_dir(listing)
    \/ main_skip
    \/ main_exit

SpecMain == InitMain /\ [][NextMain]_vars

(***************************************************************************)
(* The scorer on any DetectionResult: main() at the end of its loop.       *)
(***************************************************************************)
InitScore ==
    /\ self = None
    /\ pc = "main"
    /\ stack = <<>>
    /\ fuel = 0
    /\ last = NoNode
    /\ args \in [strict : BOOLEAN]
    /\ \E severities \in SeqsUpTo(Severities, MaxIssues), n \in 0..MaxScanned :
          result = DetectionResult(
                      [k \in 1..Len(severities) |-> AnyIssue(severities[k])], n)
    /\ todo = 0
    /\ summary = None
    /\ exit_code = None

NextScore == main_exit

SpecScore == InitScore /\ [][NextScore]_vars

(***************************************************************************)
(* The claims.                                                             *)
(***************************************************************************)
\* the issues a step appends
NewIssues == SubSeq(self'.issues, Len(self.issues) + 1, Len(self'.issues))

\* a step keeps the issues found so far
KeepsIssues ==
    /\ Len(self'.issues) >= Len(self.issues)
    /\ SubSeq(self'.issues, 1, Len(self.issues)) = self.issues

PatternsOf(issues) == [k \in 1..Len(issues) |-> issues[k].pattern]

RuleKeys == {FAKE_DATA_PATTERNS[k].pattern : k \in 1..Len(FAKE_DATA_PATTERNS)}

SeverityOfKey(key) ==
    FAKE_DATA_PATTERNS[CHOOSE k \in 1..Len(FAKE_DATA_PATTERNS) :
                           FAKE_DATA_PATTERNS[k].pattern = key].severity

\* the scope context holds an Allowed-Context substring
ContextAllowed ==
    LET class == IF self.current_class = None THEN "" ELSE self.current_class
        function == IF self.current_function = None THEN "" ELSE self.current_function
    IN  \E a \in {"test_", "mock_", "seed", "random_state", "shuffle", "sample"} :
            In(a, Lower(class \o "." \o function))

\* a function name holds an Allowed-Context substring
NameAllowed(name) ==
    \E a \in {"test_", "mock_", "seed", "random_state", "shuffle", "sample"} :
        In(a, Lower(name))

\* the step visits a node of the type, which last' holds
Visits(type) ==
    /\ pc = "visit"
    /\ fuel' = fuel - 1
    /\ last'.type = type

\* the step is visit_Call on a call whose resolved name is a key of the rule
\* table, outside every allowed context
KeyCallOutsideAllowed ==
    /\ Visits("Call")
    /\ _get_call_name(last') \in RuleKeys
    /\ ~ContextAllowed

\* C1, as claimed: a call whose resolved name equals a key of the Pattern
\* Rule Table, visited while the scope context matches no Allowed-Context
\* substring, appends exactly one Issue, of that key's severity.
C1_ExactlyOneIssue ==
    [][KeyCallOutsideAllowed =>
          /\ KeepsIssues
          /\ Len(NewIssues) = 1
          /\ NewIssues[1].severity = SeverityOfKey(_get_call_name(last'))]_vars

\* the keys that occur in each key, in the order of the table
C1_KeysIn(name) ==
    CASE name = "np.random.randn" -> <<"np.random.rand", "np.random.randn">>
      [] name = "np.random.random" ->
            <<"np.random.rand", "np.random.random", "random.random">>
      [] name = "np.random.uniform" -> <<"np.random.uniform", "random.uniform">>
      [] OTHER -> <<name>>

\* C1, amended: such a call appends one Issue for each key of the table that
\* occurs in its resolved name, in the order of the table, each with the
\* severity, the file and the line that belong to it: one Issue for
\* np.random.rand, np.random.normal, np.random.choice, random.random,
\* random.uniform and faker.Faker, two for np.random.randn and
\* np.random.uniform, three for np.random.random; exactly one of them has the
\* resolved name itself as its pattern.
C1_OneIssuePerKeyInName ==
    [][KeyCallOutsideAllowed =>
          /\ KeepsIssues
          /\ PatternsOf(NewIssues) = C1_KeysIn(_get_call_name(last'))
          /\ \A k \in 1..Len(NewIssues) :
                /\ NewIssues[k].severity = SeverityOfKey(NewIssues[k].pattern)
                /\ NewIssues[k].line = last'.lineno
                /\ NewIssues[k].file = self.filename]_vars

\* C1, reached: np.random.random() at the top of a module has left its three
\* Issues.
C1_Witness ==
    /\ pc = "visit"
    /\ last.type = "Call"
    /\ _get_call_name(last) = "np.random.random"
    /\ self.current_function = None
    /\ self.current_class = None
    /\ PatternsOf(self.issues) = <<"np.random.rand", "np.random.random", "random.random">>

\* the walk is directly in the body of a function whose name holds an
\* Allowed-Context substring: that function is the innermost open definition
InAllowedFunction ==
    /\ Len(stack) > 0
    /\ Top.type \in {"FunctionDef", "AsyncFunctionDef"}
    /\ NameAllowed(Top.name)

\* the step is visit_Call on a call whose resolved name holds a key of the rule
\* table
RuleCall ==
    /\ Visits("Call")
    /\ \E key \in RuleKeys : In(key, _get_call_name(last'))

\* C2, as claimed: a call in the body of a function whose name holds an
\* Allowed-Context substring appends no Issue, whatever statements or nested
\* definitions precede it in that body.
C2_SuppressedAnywhereInBody ==
    [][(RuleCall /\ InAllowedFunction) => UNCHANGED self]_vars

\* C2, amended: such a call appends no Issue as long as no nested function
\* definition precedes it in that body, that is, while current_function still
\* holds the name of the function; once a nested function definition has been
\* left, current_function is none, and outside an allowed class the call
\* appends its Issues like any other call.
C2_SuppressedUntilNestedDef ==
    [][(RuleCall /\ InAllowedFunction) =>
          /\ self.current_function = Top.name => UNCHANGED self
          /\ (self.current_function = None /\ self.current_class = None) =>
                 /\ KeepsIssues
                 /\ Len(NewIssues) > 0
                 /\ \A k \in 1..Len(NewIssues) : NewIssues[k].line = last'.lineno]_vars

\* C2, reached: random.uniform(0, 1) was visited directly in test_foo and
\* left no Issue.
C2_Witness ==
    /\ pc = "visit"
    /\ last.type = "Call"
    /\ _get_call_name(last) = "random.uniform"
    /\ Len(stack) = 1
    /\ stack[1].type = "FunctionDef"
    /\ stack[1].name = "test_foo"
    /\ self.current_function = "test_foo"
    /\ self.current_class = None
    /\ self.issues = <<>>
    /\ fuel = MaxNodes - 2

\* the step is visit_Assign on an assignment with a simple-name target whose
\* source line matches the magic-number pattern
MagicNumberAssign ==
    /\ Visits("Assign")
    /\ \E k \in 1..Len(last'.targets) : last'.targets[k].type = "Name"
    /\ MagicNumber(_get_source_line(self, last'.lineno))

\* the issues of the pattern among the issues
WithPattern(issues, pattern) == {k \in 1..Len(issues) : issues[k].pattern = pattern}

\* C3, as claimed: an assignment with a simple-name target whose source line
\* matches the magic-number pattern gets a WARNING magic_number Issue whether
\* or not the target name holds a Feature-Name Pattern substring.
C3_MagicNumberForAnyName ==
    [][MagicNumberAssign =>
          \E k \in WithPattern(NewIssues, "magic_number") :
              NewIssues[k].severity = "WARNING"]_vars

\* C3, amended: such an assignment gets one WARNING magic_number Issue, on its
\* line, for each simple-name target whose name holds a Feature-Name Pattern
\* substring, whether or not feature_random_assignment was also emitted for
\* it, and none for a target whose name holds no such substring: an
\* assignment with no feature-named target appends nothing at all.
C3_MagicNumberForFeatureName ==
    [][MagicNumberAssign =>
          LET features == {k \in 1..Len(last'.targets) :
                              /\ last'.targets[k].type = "Name"
                              /\ \E f \in {"feature", "program", "arbitrage"} :
                                    In(f, Lower(last'.targets[k].id))}
              magic == WithPattern(NewIssues, "magic_number")
          IN  /\ KeepsIssues
              /\ Cardinality(magic) = Cardinality(features)
              /\ \A k \in magic : /\ NewIssues[k].severity = "WARNING"
                                  /\ NewIssues[k].line = last'.lineno
              /\ features = {} => NewIssues = <<>>
              /\ Len(NewIssues) - Cardinality(magic) \in {0, Cardinality(features)}]_vars

\* C3, reached: feature_x = 0.6 * np.random.rand() has left both its
\* Issues, feature_random_assignment and then magic_number.
C3_Witness ==
    /\ pc = "visit"
    /\ last.type = "Assign"
    /\ last.lineno = 17
    /\ PatternsOf(self.issues) = <<"feature_random_assignment", "magic_number">>
    /\ self.issues[2].severity = "WARNING"
    /\ self.issues[2].line = 17

\* what the issues say: pattern, severity and line of each
Findings(issues) ==
    [k \in 1..Len(issues) |-> <<issues[k].pattern, issues[k].severity, issues[k].line>>]

\* what the text pattern scanner finds in each source, line by line
C4_TextFindings(source) ==
    CASE source = BrokenSource ->
            <<<<"fake_success", "WARNING", 2>>, <<"todo_pass", "WARNING", 3>>>>
      [] source = SampleSource ->
            <<<<"todo_pass", "WARNING", 15>>, <<"fake_success", "WARNING", 25>>>>
      [] OTHER -> <<>>

\* C4: detect() on a source that fails to parse returns, and what it returns
\* is what the text pattern scanner finds and nothing else: no Issue of the
\* tree walker and none for the failure; on a source that parses it returns
\* the Issues of the tree walker followed by what the text pattern scanner
\* finds.
C4_TextScanAlways ==
    [][/\ (pc = "detect" /\ self.source = BrokenSource) =>
           /\ pc' = "returned"
           /\ Findings(self'.issues) = C4_TextFindings(BrokenSource)
       /\ (pc = "visit" /\ pc' = "returned") =>
           /\ KeepsIssues
           /\ Findings(NewIssues) = C4_TextFindings(self.source)
           /\ \A k \in 1..Len(self.issues) :
                 self.issues[k].pattern \notin {"fake_success", "todo_pass"}]_vars

\* C4, reached: detect() has returned from the source that does not parse,
\* with the two findings of the text pattern scanner.
C4_Witness ==
    /\ pc = "returned"
    /\ self.source = BrokenSource
    /\ ast_parse(self.source).raised
    /\ PatternsOf(self.issues) = <<"fake_success", "todo_pass">>

\* C8: visit_ExceptHandler appends exactly one Issue, CRITICAL
\* exception_hiding on the line of the handler, when the body of the handler
\* is empty or holds pass statements only, and appends nothing when the body
\* holds any other statement; the exception type the handler names plays no
\* part (the handlers of the sample name ValueError, KeyError and OSError).
C8_ExceptionHiding ==
    [][Visits("ExceptHandler") =>
          LET body == last'.body
              noop == \A k \in 1..Len(body) : body[k] = Pass
          IN  /\ KeepsIssues
              /\ noop => Findings(NewIssues) =
                             <<<<"exception_hiding", "CRITICAL", last'.lineno>>>>
              /\ ~noop => NewIssues = <<>>
              /\ last'.lineno = 22 => Len(NewIssues) = 1
              /\ last'.lineno \in {24, 26} => Len(NewIssues) = 0]_vars

\* C8, reached: the handler of line 22, whose body is pass, has left its
\* Issue, and the handler of line 26, whose body is pass and then raise, has
\* been visited after it and left none.
C8_Witness ==
    /\ pc = "visit"
    /\ last.type = "ExceptHandler"
    /\ last.lineno = 26
    /\ Findings(self.issues) = <<<<"exception_hiding", "CRITICAL", 22>>>>

\* C9: entering a function definition sets current_function to the name of
\* that function and leaving it sets current_function to none, whatever
\* definitions are still open around it; entering a class definition sets
\* current_class to the name of the class and leaving it sets current_class
\* to none; a function definition leaves current_class alone and a class
\* definition leaves current_function alone; neither appends an Issue.
C9_SingleSlotScope ==
    [][/\ (Visits("FunctionDef") \/ Visits("AsyncFunctionDef")) =>
              /\ self'.current_function = last'.name
              /\ self'.current_class = self.current_class
       /\ Visits("ClassDef") =>
              /\ self'.current_class = last'.name
              /\ self'.current_function = self.current_function
       /\ (pc = "visit" /\ Len(stack') < Len(stack)) =>
              IF Top.type = "ClassDef"
              THEN /\ self'.current_class = None
                   /\ self'.current_function = self.current_function
              ELSE /\ self'.current_function = None
                   /\ self'.current_class = self.current_class
       /\ (pc = "visit" /\ Len(stack') # Len(stack)) =>
              self'.issues = self.issues]_vars

\* C9, reached: the walk is back in the body of test_foo, in the class
\* Model, after a function nested in it, and current_function is none while
\* current_class is still Model.
C9_Witness ==
    /\ pc = "visit"
    /\ Len(stack) = 2
    /\ stack[1].type = "ClassDef"
    /\ stack[2].type = "FunctionDef"
    /\ stack[2].name = "test_foo"
    /\ last.type \in {"FunctionDef", "AsyncFunctionDef"}
    /\ last # stack[2]
    /\ self.current_function = None
    /\ self.current_class = stack[1].name

\* what each assignment and each exception handler of the sample gets when it
\* is visited outside every allowed context, by its line
C10_Unsuppressed(lineno) ==
    CASE lineno = 17 -> <<<<"feature_random_assignment", "CRITICAL", 17>>,
                          <<"magic_number", "WARNING", 17>>>>
      [] lineno = 18 -> <<<<"feature_random_assignment", "CRITICAL", 18>>>>
      [] lineno = 19 -> <<<<"magic_number", "WARNING", 19>>>>
      [] lineno = 22 -> <<<<"exception_hiding", "CRITICAL", 22>>>>
      [] OTHER -> <<>>

\* C10: while the scope context holds an Allowed-Context substring,
\* visit_Call appends no Issue, and visit_Assign and visit_ExceptHandler
\* append the very Issues they append outside such a context.
C10_SuppressionForCallsOnly ==
    [][/\ (Visits("Call") /\ ContextAllowed) => UNCHANGED self
       /\ (Visits("Assign") \/ Visits("ExceptHandler")) =>
              /\ KeepsIssues
              /\ Findings(NewIssues) = C10_Unsuppressed(last'.lineno)]_vars

\* C10, reached: in the class Sample, an allowed context,
\* feature_x = 0.6 * np.random.rand() has left both of its Issues.
C10_Witness ==
    /\ pc = "visit"
    /\ self.current_class = "Sample"
    /\ ContextAllowed
    /\ last.type = "Assign"
    /\ last.lineno = 17
    /\ Findings(self.issues) = C10_Unsuppressed(17)

\* the issues main() adds to the result in a step
NewResultIssues ==
    SubSeq(result'.issues, Len(result.issues) + 1, Len(result'.issues))

\* the files of a directory listing that scan_directory does not exclude:
\* of the entries of DirEntries all but pkg/venv/crit.py
C5_Processed(listing) == {k \in 1..Len(listing) : listing[k].path # "pkg/venv/crit.py"}

\* C5: every file a scan run processes adds exactly one to files_scanned; a
\* file that cannot be read adds exactly one Issue, WARNING read_error on line
\* 0 and in that file, and is counted like any other; the failure ends
\* neither scan_file nor the run.
C5_ReadErrorIsOneWarning ==
    [][/\ pc = "main" => pc' \in {"main", "exited"}
       /\ \A f \in InputFiles : main_file(f) =>
              /\ result'.files_scanned = result.files_scanned + 1
              /\ SubSeq(result'.issues, 1, Len(result.issues)) = result.issues
              /\ f.content = None =>
                     /\ Findings(NewResultIssues) = <<<<"read_error", "WARNING", 0>>>>
                     /\ NewResultIssues[1].file = f.path
       /\ \A listing \in Listings : main_dir(listing) =>
              LET unreadable == {k \in C5_Processed(listing) : listing[k].content = None}
              IN  /\ result'.files_scanned =
                         result.files_scanned + Cardinality(C5_Processed(listing))
                  /\ Cardinality(WithPattern(NewResultIssues, "read_error")) =
                         Cardinality(unreadable)
                  /\ \A k \in WithPattern(NewResultIssues, "read_error") :
                         /\ NewResultIssues[k].severity = "WARNING"
                         /\ NewResultIssues[k].line = 0]_vars

\* C5, reached: the run is over, it has scanned two files, both of which
\* could not be read, and its result holds their two Issues and no other.
C5_Witness ==
    /\ pc = "exited"
    /\ result.files_scanned = 2
    /\ Findings(result.issues) =
           <<<<"read_error", "WARNING", 0>>, <<"read_error", "WARNING", 0>>>>

\* the issues of the severity among the issues
WithSeverity(issues, severity) == {k \in 1..Len(issues) : issues[k].severity = severity}

\* C6: whatever the scans have put in the result, passed is true exactly when
\* the result holds no CRITICAL Issue, however many WARNING Issues it holds;
\* the exit code is 0 exactly when passed is true and, in strict mode, there
\* is no WARNING Issue either, and 1 otherwise.
C6_PassedAndExitCode ==
    LET critical == WithSeverity(result.issues, "CRITICAL")
        warning == WithSeverity(result.issues, "WARNING")
    IN  /\ passed(result) <=> critical = {}
        /\ pc = "exited" =>
              /\ summary.passed <=> critical = {}
              /\ exit_code \in {0, 1}
              /\ exit_code = 0 <=>
                     (critical = {} /\ (args.strict => warning = {}))

\* C6, reached: a strict run has ended with WARNING Issues and no CRITICAL
\* one: it passed, and its exit code is 1.
C6_Witness ==
    /\ pc = "exited"
    /\ args.strict
    /\ WithSeverity(result.issues, "WARNING") # {}
    /\ WithSeverity(result.issues, "CRITICAL") = {}
    /\ summary.passed
    /\ exit_code = 1

\* C7: bs_score is the weighted total of the Issues, 10 for each CRITICAL, 3
\* for each WARNING, 1 for each INFO and 1 for each Issue of another
\* severity, divided by files_scanned, or by 1 when files_scanned is 0: for
\* one CRITICAL and one WARNING it is 13 with one file scanned, 13/2 with
\* two, and 13 with none.
C7_BsScore ==
    pc = "exited" =>
        LET issues == result.issues
            total == 10 * Cardinality(WithSeverity(issues, "CRITICAL"))
                     + 3 * Cardinality(WithSeverity(issues, "WARNING"))
                     + Cardinality(WithSeverity(issues, "INFO"))
                     + Cardinality({k \in 1..Len(issues) :
                           issues[k].severity \notin {"CRITICAL", "WARNING", "INFO"}})
            divisor == IF result.files_scanned = 0 THEN 1 ELSE result.files_scanned
            score == summary.bs_score
        IN  /\ score[2] > 0
            /\ score[1] * divisor = total * score[2]
            /\ \A d \in 2..score[2] : ~(score[1] % d = 0 /\ score[2] % d = 0)
            /\ (Len(issues) = 2 /\ total = 13) =>
                  /\ result.files_scanned \in {0, 1} => score = <<13, 1>>
                  /\ result.files_scanned = 2 => score = <<13, 2>>

\* C7, reached: one CRITICAL and one WARNING Issue over two files scanned
\* score 13/2.
C7_Witness ==
    /\ pc = "exited"
    /\ result.files_scanned = 2
    /\ Len(result.issues) = 2
    /\ Cardinality(WithSeverity(result.issues, "CRITICAL")) = 1
    /\ Cardinality(WithSeverity(result.issues, "WARNING")) = 1
    /\ summary.bs_score = <<13, 2>>

=============================================================================
